---- MODULE Spec2Model ----
(***************************************************************************)
(* LogsOverReflector: the live (log) and historical (history) query        *)
(* handlers of plugin.py.  Text is modelled as sequences of one-character  *)
(* strings, so that int(), strip(), lower(), the substring test and the    *)
(* header regular expression are computed character by character.          *)
(***************************************************************************)
EXTENDS Integers, Sequences, FiniteSets, TLC

VARIABLES
    pluginPrefs,    \* self.pluginPrefs: the configured defaultLineCount, if any
    eventLog,       \* the live source: runs of identical records, oldest first
    logFile,        \* the file store's answer for the requested date
    pc,             \* where the request is: idle, log, history, parse, done
    query_args,     \* props["url_query_args"] of the request being served
    frame,          \* the handler's local variables assigned so far
    fetches,        \* lineCount of every getEventLogList call of this request
    logged,         \* the logger calls of this request
    reply,          \* reply["status"] and the decoded reply["content"]
    endpoint,       \* the handler the request was dispatched to
    walk            \* the paging client: offset sent, pages received so far

vars == <<pluginPrefs, eventLog, logFile, pc, query_args, frame, fetches,
          logged, reply, endpoint, walk>>

----------------------------------------------------------------------------
(* Program constants *)

MaxLineCount == 5000
MaxFetchCount == 10000
FilterFetchFactor == 3
FallbackDefaultLines == 500
MaxFileSizeMB == 50
BytesPerMB == 1048576

Min(a, b) == IF a < b THEN a ELSE b
Max(a, b) == IF a > b THEN a ELSE b

----------------------------------------------------------------------------
(* Text *)

TAB == "\t"
LF == "\n"
CR == "\r"

Digits == <<"0", "1", "2", "3", "4", "5", "6", "7", "8", "9">>
UpperCase == <<"A", "B", "C", "D", "E", "F", "G", "H", "I", "J", "K", "L", "M",
               "N", "O", "P", "Q", "R", "S", "T", "U", "V", "W", "X", "Y", "Z">>
LowerCase == <<"a", "b", "c", "d", "e", "f", "g", "h", "i", "j", "k", "l", "m",
               "n", "o", "p", "q", "r", "s", "t", "u", "v", "w", "x", "y", "z">>

IsDigit(c) == \E i \in 1..10 : Digits[i] = c
DigitValue(c) == (CHOOSE i \in 1..10 : Digits[i] = c) - 1
IsSpace(c) == c \in {" ", TAB, LF, CR, "\f"}

\* str.lower() on one character
LowerChar(c) ==
    IF \E i \in 1..26 : UpperCase[i] = c
    THEN LowerCase[CHOOSE i \in 1..26 : UpperCase[i] = c]
    ELSE c

\* str.lower()
PyLower(s) == [i \in 1..Len(s) |-> LowerChar(s[i])]

\* str.strip(): drops leading and trailing whitespace
PyStrip(s) ==
    IF \A i \in 1..Len(s) : IsSpace(s[i])
    THEN <<>>
    ELSE LET first == CHOOSE i \in 1..Len(s) :
                          /\ ~IsSpace(s[i])
                          /\ \A j \in 1..(i - 1) : IsSpace(s[j])
             last == CHOOSE i \in 1..Len(s) :
                          /\ ~IsSpace(s[i])
                          /\ \A j \in (i + 1)..Len(s) : IsSpace(s[j])
         IN SubSeq(s, first, last)

\* str.rstrip("\r\n"): drops every trailing CR and LF
RStripNewlines(s) ==
    LET keep == CHOOSE k \in 0..Len(s) :
                    /\ \A j \in (k + 1)..Len(s) : s[j] \in {CR, LF}
                    /\ k > 0 => s[k] \notin {CR, LF}
    IN SubSeq(s, 1, keep)

\* needle in hay
Contains(hay, needle) ==
    \E i \in 0..(Len(hay) - Len(needle)) :
        SubSeq(hay, i + 1, i + Len(needle)) = needle

\* seq[start:end] for start, end >= 0 (0-based, end exclusive, clamped to len)
PySlice(seq, start, end) ==
    LET n == Len(seq)
        lo == IF start < 0 THEN Max(0, n + start) ELSE Min(start, n)
        hi == IF end < 0 THEN Max(0, n + end) ELSE Min(end, n)
    IN SubSeq(seq, lo + 1, hi)

\* value of a run of decimal digits
RECURSIVE DecimalValue(_)
DecimalValue(ds) ==
    IF ds = <<>> THEN 0
    ELSE 10 * DecimalValue(SubSeq(ds, 1, Len(ds) - 1)) + DigitValue(ds[Len(ds)])

\* int(str): surrounding whitespace dropped, an optional sign, then digits;
\* any other text over the modelled characters raises ValueError (ok = FALSE)
PyInt(s) ==
    LET t == PyStrip(s)
        signed == t # <<>> /\ t[1] \in {"+", "-"}
        ds == IF signed THEN Tail(t) ELSE t
    IN IF ds # <<>> /\ \A i \in 1..Len(ds) : IsDigit(ds[i])
       THEN [ok |-> TRUE,
             val |-> IF signed /\ t[1] = "-" THEN 0 - DecimalValue(ds)
                     ELSE DecimalValue(ds)]
       ELSE [ok |-> FALSE, val |-> 0]

\* str(int), as the paging client writes its offset
RECURSIVE NatToStr(_)
NatToStr(n) ==
    IF n < 10 THEN <<Digits[n + 1]>>
    ELSE Append(NatToStr(n \div 10), Digits[(n % 10) + 1])

----------------------------------------------------------------------------
(* Request parameters shared by both handlers *)

HasArg(args, key) == key \in DOMAIN args

\* query_args.get(key, "")
GetText(args, key) == IF HasArg(args, key) THEN args[key] ELSE <<>>

\* int(self.pluginPrefs.get("defaultLineCount", 500))
DefaultLines(prefs) ==
    IF "defaultLineCount" \in DOMAIN prefs THEN prefs.defaultLineCount
    ELSE FallbackDefaultLines

\* the reply of a successful query
SuccessContent(entries, total_filtered, has_more) ==
    [success |-> TRUE, count |-> Len(entries), totalFiltered |-> total_filtered,
     hasMore |-> has_more, entries |-> entries]

ErrorContent(error) == [success |-> FALSE, error |-> error]

NoReply == [status |-> 0, content |-> ErrorContent("none")]

----------------------------------------------------------------------------
(* log: the live handler *)

\* line_count of log
LogLineCount(args, prefs) ==
    LET default_lines == DefaultLines(prefs)
        parsed == PyInt(GetText(args, "lines"))
        line_count == IF ~HasArg(args, "lines") THEN default_lines
                      ELSE IF parsed.ok THEN parsed.val
                      ELSE default_lines
    IN Max(1, Min(line_count, MaxLineCount))

\* offset of log
LogOffset(args) ==
    LET parsed == PyInt(GetText(args, "offset"))
        offset == IF HasArg(args, "offset") /\ parsed.ok THEN parsed.val ELSE 0
    IN Max(0, offset)

LogSourceFilter(args) == PyStrip(GetText(args, "source"))
LogSearchFilter(args) == PyLower(PyStrip(GetText(args, "search")))

\* fetch_count without the record that shows whether more history exists
FetchCountNoLookahead(offset, line_count, has_filter) ==
    Min((offset + line_count) * (IF has_filter THEN FilterFetchFactor ELSE 1),
        MaxFetchCount)

\* fetch_count that ignores whether a filter is active
FetchCountUnscaled(offset, line_count, has_filter) ==
    Min(offset + line_count + 1, MaxFetchCount)

\* fetch_count of log
FetchCount(offset, line_count, has_filter) ==
    Min((offset + line_count + 1) * (IF has_filter THEN FilterFetchFactor ELSE 1),
        MaxFetchCount)

\* the number of records the live source holds
RECURSIVE RunsSize(_)
RunsSize(runs) ==
    IF runs = <<>> THEN 0 ELSE runs[1].count + RunsSize(Tail(runs))

\* record i (1 = oldest) of the live source
EventRecord(runs, i) ==
    LET r == CHOOSE k \in 1..Len(runs) :
                 /\ RunsSize(SubSeq(runs, 1, k - 1)) < i
                 /\ i <= RunsSize(SubSeq(runs, 1, k))
    IN [TimeStamp |-> i, TypeStr |-> runs[r].kind.TypeStr,
        TypeVal |-> runs[r].kind.TypeVal, Message |-> runs[r].kind.Message]

\* indigo.server.getEventLogList(returnAsList=True, showTimeStamp=True,
\* lineCount=n): the n most recent records, oldest first
GetEventLogList(runs, lineCount) ==
    LET size == RunsSize(runs)
        n == Min(size, lineCount)
    IN [j \in 1..n |-> EventRecord(runs, size - n + j)]

\* timestamp.isoformat()
IsoFormat(ts) == [iso |-> ts]

\* the filter loop of log
LogFilter(raw_entries, source_filter, search_filter) ==
    LET Keep(entry) ==
            /\ ~(source_filter # <<>> /\ entry.TypeStr # source_filter)
            /\ ~(search_filter # <<>>
                 /\ ~Contains(PyLower(entry.Message), search_filter))
        kept == SelectSeq(raw_entries, Keep)
    IN [i \in 1..Len(kept) |->
            [message |-> kept[i].Message, source |-> kept[i].TypeStr,
             typeVal |-> kept[i].TypeVal,
             timestamp |-> IsoFormat(kept[i].TimeStamp)]]

\* pagination of log with start_index not held at 0
LogPaginateUnclamped(filtered, offset, line_count) ==
    LET total_filtered == Len(filtered)
        end_index == total_filtered - offset
        start_index == end_index - line_count
        entries == IF offset >= total_filtered THEN <<>>
                   ELSE PySlice(filtered, start_index, end_index)
    IN [entries |-> entries,
        has_more |-> (total_filtered - offset - Len(entries)) > 0]

\* pagination of log
LogPaginate(filtered, offset, line_count) ==
    LET total_filtered == Len(filtered)
        end_index == total_filtered - offset
        start_index == Max(0, end_index - line_count)
        entries == IF offset >= total_filtered THEN <<>>
                   ELSE PySlice(filtered, start_index, end_index)
    IN [entries |-> entries,
        has_more |-> (total_filtered - offset - Len(entries)) > 0]

Log ==
    /\ pc = "log"
    /\ eventLog.available
    /\ LET line_count == LogLineCount(query_args, pluginPrefs)
           offset == LogOffset(query_args)
           source_filter == LogSourceFilter(query_args)
           search_filter == LogSearchFilter(query_args)
           has_filter == source_filter # <<>> \/ search_filter # <<>>
           fetch_count == FetchCount(offset, line_count, has_filter)
           raw_entries == GetEventLogList(eventLog.runs, fetch_count)
           filtered == LogFilter(raw_entries, source_filter, search_filter)
           page == LogPaginate(filtered, offset, line_count)
       IN /\ frame' = [line_count |-> line_count, offset |-> offset,
                       source_filter |-> source_filter,
                       search_filter |-> search_filter,
                       has_filter |-> has_filter, fetch_count |-> fetch_count,
                       filtered |-> filtered, entries |-> page.entries,
                       has_more |-> page.has_more]
          /\ fetches' = Append(fetches, fetch_count)
          /\ reply' = [status |-> 200,
                       content |-> SuccessContent(page.entries, Len(filtered),
                                                  page.has_more)]
    /\ pc' = "done"
    /\ UNCHANGED <<pluginPrefs, eventLog, logFile, query_args, logged,
                   endpoint, walk>>

\* getEventLogList raises: the handler's except branch
LogInternalError ==
    /\ pc = "log"
    /\ ~eventLog.available
    /\ frame' = [line_count |-> LogLineCount(query_args, pluginPrefs),
                 offset |-> LogOffset(query_args),
                 source_filter |-> LogSourceFilter(query_args),
                 search_filter |-> LogSearchFilter(query_args)]
    /\ fetches' = Append(fetches,
                         FetchCount(LogOffset(query_args),
                                    LogLineCount(query_args, pluginPrefs),
                                    LogSourceFilter(query_args) # <<>>
                                    \/ LogSearchFilter(query_args) # <<>>))
    /\ logged' = Append(logged, [level |-> "exception",
                                 event |-> "Error in log endpoint"])
    /\ reply' = [status |-> 500, content |-> ErrorContent("Internal server error")]
    /\ pc' = "done"
    /\ UNCHANGED <<pluginPrefs, eventLog, logFile, query_args, endpoint, walk>>

----------------------------------------------------------------------------
(* history: the historical handler *)

\* the longest run of characters of the set chars that starts at index from:
\* the index of its last character (from - 1 when the run is empty)
RunEnd(line, from, chars) ==
    CHOOSE e \in (from - 1)..Len(line) :
        /\ \A i \in from..e : line[i] \in chars
        /\ e < Len(line) => line[e + 1] \notin chars

DigitChars == {Digits[i] : i \in 1..10}

\* "d" stands for \d, any other character for itself
TimestampHead == <<"d", "d", "d", "d", "-", "d", "d", "-", "d", "d", " ",
                   "d", "d", ":", "d", "d", ":", "d", "d", ".">>

\* _LOG_LINE_RE.match(line):
\* ^(\d{4}-\d{2}-\d{2} \d{2}:\d{2}:\d{2}\.\d+)\t+(\S.*?)\t+(.*)$
LogLineMatch(line) ==
    LET n == Len(line)
        headLen == Len(TimestampHead)
        headOk == /\ n >= headLen
                  /\ \A i \in 1..headLen :
                        IF TimestampHead[i] = "d" THEN IsDigit(line[i])
                        ELSE line[i] = TimestampHead[i]
        fracEnd == RunEnd(line, headLen + 1, DigitChars)
        tabEnd == RunEnd(line, fracEnd + 1, {TAB})
        srcStart == tabEnd + 1
        \* the lazy (\S.*?) ends before the first tab after its first character
        hasSep == \E q \in (srcStart + 1)..n : line[q] = TAB
        sep == CHOOSE q \in (srcStart + 1)..n :
                   /\ line[q] = TAB
                   /\ \A j \in (srcStart + 1)..(q - 1) : line[j] # TAB
        sepEnd == RunEnd(line, sep, {TAB})
        matched == /\ headOk
                   /\ fracEnd > headLen
                   /\ tabEnd > fracEnd
                   /\ srcStart <= n
                   /\ ~IsSpace(line[srcStart])
                   /\ hasSep
                   /\ \A j \in srcStart..n : line[j] # LF
    IN IF matched
       THEN [matched |-> TRUE,
             timestamp |-> SubSeq(line, 1, fracEnd),
             source |-> SubSeq(line, srcStart, sep - 1),
             message |-> SubSeq(line, sepEnd + 1, n)]
       ELSE [matched |-> FALSE, timestamp |-> <<>>, source |-> <<>>,
             message |-> <<>>]

\* re.match(r"^\d{4}-\d{2}-\d{2}$", date_str), date_str already stripped
DateFormOk(date_str) ==
    /\ Len(date_str) = 10
    /\ \A i \in 1..10 : IF i \in {5, 8} THEN date_str[i] = "-"
                        ELSE IsDigit(date_str[i])

IsLeapYear(y) == (y % 4 = 0 /\ y % 100 # 0) \/ y % 400 = 0

DaysInMonth(y, m) ==
    IF m = 2 THEN (IF IsLeapYear(y) THEN 29 ELSE 28)
    ELSE IF m \in {4, 6, 9, 11} THEN 30
    ELSE 31

\* datetime.date.fromisoformat(date_str) does not raise ValueError
DateValid(date_str) ==
    LET y == DecimalValue(SubSeq(date_str, 1, 4))
        m == DecimalValue(SubSeq(date_str, 6, 7))
        d == DecimalValue(SubSeq(date_str, 9, 10))
    IN /\ y >= 1
       /\ m \in 1..12
       /\ d >= 1
       /\ d <= DaysInMonth(y, m)

HistoryDateStr(args) == PyStrip(GetText(args, "date"))

HistoryDateAccepted(args) ==
    /\ DateFormOk(HistoryDateStr(args))
    /\ DateValid(HistoryDateStr(args))

\* line_count of history without the lower clamp
HistoryLineCountNoFloor(args, prefs) ==
    LET default_lines == DefaultLines(prefs)
        parsed == PyInt(GetText(args, "lines"))
        line_count == IF ~HasArg(args, "lines") THEN default_lines
                      ELSE IF parsed.ok THEN parsed.val
                      ELSE default_lines
    IN Min(line_count, MaxLineCount)

\* line_count of history
HistoryLineCount(args, prefs) ==
    LET default_lines == DefaultLines(prefs)
        parsed == PyInt(GetText(args, "lines"))
        line_count == IF ~HasArg(args, "lines") THEN default_lines
                      ELSE IF parsed.ok THEN parsed.val
                      ELSE default_lines
    IN Max(1, Min(line_count, MaxLineCount))

\* offset of history
HistoryOffset(args) ==
    LET parsed == PyInt(GetText(args, "offset"))
        offset == IF HasArg(args, "offset") /\ parsed.ok THEN parsed.val ELSE 0
    IN Max(0, offset)

HistorySourceFilter(args) == PyStrip(GetText(args, "source"))
HistorySearchFilter(args) == PyLower(PyStrip(GetText(args, "search")))

\* the locals of history up to the size guard
HistoryParams(args, prefs, file) ==
    [line_count |-> HistoryLineCount(args, prefs),
     offset |-> HistoryOffset(args),
     source_filter |-> HistorySourceFilter(args),
     search_filter |-> HistorySearchFilter(args),
     file_size |-> file.size]

\* the size guard rejecting a file of exactly the limit
FileTooLargeInclusive(file) == file.size >= MaxFileSizeMB * BytesPerMB

FileTooLarge(file) == file.size > MaxFileSizeMB * BytesPerMB

\* _flush_entry() searching the message as written, not lower-cased
FlushEntryCaseSensitive(filtered, current_entry, source_filter, search_filter) ==
    IF current_entry = <<>> THEN filtered
    ELSE IF source_filter # <<>> /\ current_entry[1].source # source_filter
    THEN filtered
    ELSE IF search_filter # <<>>
            /\ ~Contains(current_entry[1].message, search_filter)
    THEN filtered
    ELSE Append(filtered, [timestamp |-> current_entry[1].timestamp,
                           source |-> current_entry[1].source,
                           message |-> current_entry[1].message,
                           typeVal |-> "None"])

\* _flush_entry(): current_entry is <<>> for None, <<entry>> otherwise
FlushEntry(filtered, current_entry, source_filter, search_filter) ==
    IF current_entry = <<>> THEN filtered
    ELSE IF source_filter # <<>> /\ current_entry[1].source # source_filter
    THEN filtered
    ELSE IF search_filter # <<>>
            /\ ~Contains(PyLower(current_entry[1].message), search_filter)
    THEN filtered
    ELSE Append(filtered, [timestamp |-> current_entry[1].timestamp,
                           source |-> current_entry[1].source,
                           message |-> current_entry[1].message,
                           typeVal |-> "None"])

\* a continuation line appended without the newline
AppendContinuationUnbroken(message, raw_line) == message \o raw_line

\* current_entry["message"] += "\n" + raw_line
AppendContinuation(message, raw_line) == message \o <<LF>> \o raw_line

\* the diagnostics after the parse loop
ParseDiagnostics(unparsed_leading, filtered) ==
    IF unparsed_leading > 0 /\ filtered = <<>>
    THEN <<[level |-> "warning", event |-> "none matched expected format"]>>
    ELSE IF unparsed_leading > 0
    THEN <<[level |-> "debug", event |-> "leading lines before first entry"]>>
    ELSE <<>>

\* pagination of history with has_more not counting the page itself
HistoryPaginateAnyLeft(filtered, offset, line_count) ==
    LET total_filtered == Len(filtered)
        end_index == total_filtered - offset
        start_index == Max(0, end_index - line_count)
        entries == IF offset >= total_filtered THEN <<>>
                   ELSE PySlice(filtered, start_index, end_index)
    IN [entries |-> entries,
        has_more |-> (total_filtered - offset) > 0]

\* pagination of history
HistoryPaginate(filtered, offset, line_count) ==
    LET total_filtered == Len(filtered)
        end_index == total_filtered - offset
        start_index == Max(0, end_index - line_count)
        entries == IF offset >= total_filtered THEN <<>>
                   ELSE PySlice(filtered, start_index, end_index)
    IN [entries |-> entries,
        has_more |-> (total_filtered - offset - Len(entries)) > 0]

HistoryBadDate ==
    /\ pc = "history"
    /\ ~HistoryDateAccepted(query_args)
    /\ reply' = [status |-> 400,
                 content |-> ErrorContent(
                     IF DateFormOk(HistoryDateStr(query_args))
                     THEN "Invalid calendar date"
                     ELSE "Missing or invalid 'date' parameter (YYYY-MM-DD)")]
    /\ pc' = "done"
    /\ UNCHANGED <<pluginPrefs, eventLog, logFile, query_args, frame, fetches,
                   logged, endpoint, walk>>

HistoryNoFile ==
    /\ pc = "history"
    /\ HistoryDateAccepted(query_args)
    /\ ~logFile.exists
    /\ reply' = [status |-> 200, content |-> SuccessContent(<<>>, 0, FALSE)]
    /\ pc' = "done"
    /\ UNCHANGED <<pluginPrefs, eventLog, logFile, query_args, frame, fetches,
                   logged, endpoint, walk>>

HistoryTooLarge ==
    /\ pc = "history"
    /\ HistoryDateAccepted(query_args)
    /\ logFile.exists
    /\ FileTooLarge(logFile)
    /\ frame' = HistoryParams(query_args, pluginPrefs, logFile)
    /\ logged' = Append(logged, [level |-> "warning",
                                 event |-> "exceeds size limit"])
    /\ reply' = [status |-> 413,
                 content |-> [success |-> FALSE,
                              error |-> "Log file too large",
                              mb |-> logFile.size \div BytesPerMB,
                              hint |-> "Use source or search filters."]]
    /\ pc' = "done"
    /\ UNCHANGED <<pluginPrefs, eventLog, logFile, query_args, fetches,
                   endpoint, walk>>

HistoryReadDenied ==
    /\ pc = "history"
    /\ HistoryDateAccepted(query_args)
    /\ logFile.exists
    /\ ~FileTooLarge(logFile)
    /\ logFile.readError = "PermissionError"
    /\ frame' = HistoryParams(query_args, pluginPrefs, logFile)
    /\ logged' = Append(logged, [level |-> "error",
                                 event |-> "Permission denied reading log file"])
    /\ reply' = [status |-> 403,
                 content |-> ErrorContent("Cannot read log file: permission denied")]
    /\ pc' = "done"
    /\ UNCHANGED <<pluginPrefs, eventLog, logFile, query_args, fetches,
                   endpoint, walk>>

HistoryReadFailed ==
    /\ pc = "history"
    /\ HistoryDateAccepted(query_args)
    /\ logFile.exists
    /\ ~FileTooLarge(logFile)
    /\ logFile.readError = "OSError"
    /\ frame' = HistoryParams(query_args, pluginPrefs, logFile)
    /\ logged' = Append(logged, [level |-> "error",
                                 event |-> "OS error reading log file"])
    /\ reply' = [status |-> 500,
                 content |-> ErrorContent("File system error reading log file")]
    /\ pc' = "done"
    /\ UNCHANGED <<pluginPrefs, eventLog, logFile, query_args, fetches,
                   endpoint, walk>>

\* the file is read: the parse loop starts.  The lines are the decoded text;
\* the latin-1 retry after a UnicodeDecodeError yields lines as well.
HistoryRead ==
    /\ pc = "history"
    /\ HistoryDateAccepted(query_args)
    /\ logFile.exists
    /\ ~FileTooLarge(logFile)
    /\ logFile.readError = "none"
    /\ frame' = [lines |-> logFile.lines, next |-> 1, filtered |-> <<>>,
                 current_entry |-> <<>>, unparsed_leading |-> 0]
                @@ HistoryParams(query_args, pluginPrefs, logFile)
    /\ pc' = "parse"
    /\ UNCHANGED <<pluginPrefs, eventLog, logFile, query_args, fetches, logged,
                   reply, endpoint, walk>>

\* one iteration of "for raw_line in lines"
HistoryParseLine ==
    /\ pc = "parse"
    /\ frame.next <= Len(frame.lines)
    /\ LET raw_line == RStripNewlines(frame.lines[frame.next])
           m == LogLineMatch(raw_line)
       IN frame' =
            IF m.matched
            THEN [frame EXCEPT
                    !.filtered = FlushEntry(frame.filtered, frame.current_entry,
                                            frame.source_filter,
                                            frame.search_filter),
                    !.current_entry = <<[timestamp |-> m.timestamp,
                                         source |-> m.source,
                                         message |-> m.message]>>,
                    !.next = @ + 1]
            ELSE IF frame.current_entry # <<>>
            THEN [frame EXCEPT
                    !.current_entry[1].message = AppendContinuation(@, raw_line),
                    !.next = @ + 1]
            ELSE [frame EXCEPT !.unparsed_leading = @ + 1, !.next = @ + 1]
    /\ UNCHANGED <<pluginPrefs, eventLog, logFile, pc, query_args, fetches,
                   logged, reply, endpoint, walk>>

\* after the loop: the last flush, the diagnostics, the page and the reply
HistoryFinish ==
    /\ pc = "parse"
    /\ frame.next > Len(frame.lines)
    /\ LET filtered == FlushEntry(frame.filtered, frame.current_entry,
                                  frame.source_filter, frame.search_filter)
           page == HistoryPaginate(filtered, frame.offset, frame.line_count)
       IN /\ frame' = [entries |-> page.entries, has_more |-> page.has_more]
                      @@ [frame EXCEPT !.filtered = filtered]
          /\ logged' = logged \o ParseDiagnostics(frame.unparsed_leading, filtered)
          /\ reply' = [status |-> 200,
                       content |-> SuccessContent(page.entries, Len(filtered),
                                                  page.has_more)]
    /\ pc' = "done"
    /\ UNCHANGED <<pluginPrefs, eventLog, logFile, query_args, fetches,
                   endpoint, walk>>

----------------------------------------------------------------------------
(* The paging client: while the last page reports hasMore, it repeats the  *)
(* same query with its offset increased by the returned count.             *)

ClientNextPage ==
    /\ pc = "done"
    /\ endpoint = "history"
    /\ walk.paging
    /\ reply.status = 200
    /\ reply.content.hasMore
    /\ walk' = [walk EXCEPT !.offset = @ + reply.content.count,
                            !.requests = @ + 1,
                            !.pages = Append(@, reply.content.entries)]
    /\ query_args' = [k \in DOMAIN query_args \cup {"offset"} |->
                        IF k = "offset"
                        THEN NatToStr(walk.offset + reply.content.count)
                        ELSE query_args[k]]
    /\ frame' = <<>>
    /\ logged' = <<>>
    /\ fetches' = <<>>
    /\ reply' = NoReply
    /\ pc' = "history"
    /\ UNCHANGED <<pluginPrefs, eventLog, logFile, endpoint>>

----------------------------------------------------------------------------
(* Inputs *)

\* bounds of the modelled inputs
MaxFileLines == 3
MaxOldRun == 2
MaxNewRun == 6
MaxOverCap == 2

Some(text) == <<text>>
Absent == <<>>

\* one optional query parameter: nothing when absent
Arg(key, opt) == IF opt = Absent THEN <<>> ELSE (key :> opt[1])

QueryArgs(date, lines, offset, source, search) ==
    Arg("date", date) @@ Arg("lines", lines) @@ Arg("offset", offset)
        @@ Arg("source", source) @@ Arg("search", search)

\* the client's own offset: the number it wrote, 0 when it sent none
ClientWalk(offset) ==
    [paging |-> offset = Absent \/ (PyInt(offset[1]).ok
                                    /\ PyInt(offset[1]).val >= 0
                                    /\ NatToStr(PyInt(offset[1]).val) = offset[1]),
     offset |-> IF offset # Absent /\ PyInt(offset[1]).ok
                THEN Max(0, PyInt(offset[1]).val) ELSE 0,
     start |-> IF offset # Absent /\ PyInt(offset[1]).ok
               THEN Max(0, PyInt(offset[1]).val) ELSE 0,
     requests |-> 1,
     pages |-> <<>>]

\* record contents of the live source
KindMatch == [TypeStr |-> <<"A">>, Message |-> <<"x", "A">>, TypeVal |-> 0]
KindOther == [TypeStr |-> <<"a">>, Message |-> <<"x", "y">>, TypeVal |-> 1]
KindSearchMiss == [TypeStr |-> <<"A">>, Message |-> <<"x", "y">>, TypeVal |-> 0]
KindSourceMiss == [TypeStr |-> <<"a">>, Message |-> <<"x", "A">>, TypeVal |-> 1]

Kinds == {KindMatch, KindOther, KindSearchMiss, KindSourceMiss}

Runs(oldKind, oldCount, newKind, newCount) ==
    <<[kind |-> oldKind, count |-> oldCount],
      [kind |-> newKind, count |-> newCount]>>

SmallLogs ==
    { [available |-> TRUE, runs |-> Runs(ok, oc, nk, nc)] :
        ok \in Kinds, oc \in 0..MaxOldRun, nk \in Kinds, nc \in 0..MaxNewRun }

\* logs that hold the fetch cap and up to MaxOverCap records more
LongLogs ==
    { [available |-> TRUE,
       runs |-> Runs(KindMatch, MaxFetchCount, KindOther, c)] :
        c \in 0..MaxOverCap }

NoLog == [available |-> TRUE, runs |-> <<>>]
FailingLog == [available |-> FALSE, runs |-> <<>>]

\* lines of a dated file, as readlines() returns them
HeaderA == <<"2", "0", "2", "4", "-", "0", "1", "-", "0", "1", " ", "1", "0", ":", "0", "0", ":", "0", "0", ".", "0", "0", "0", TAB, "A", TAB, "x", "A", LF>>
HeaderTabs == <<"2", "0", "2", "4", "-", "0", "1", "-", "0", "1", " ", "1", "0", ":", "0", "0", ":", "0", "1", ".", "5", TAB, TAB, "a", TAB, TAB, "x", "y", LF>>
HeaderEmptyMessage == <<"2", "0", "2", "4", "-", "0", "1", "-", "0", "1", " ", "1", "0", ":", "0", "0", ":", "0", "0", ".", "0", "0", "0", TAB, "A", TAB, LF>>
HeaderSpaced == <<"2", "0", "2", "4", "-", "0", "1", "-", "0", "1", " ", "1", "0", ":", "0", "0", ":", "0", "0", ".", "0", "0", "0", TAB, "A", " ", "b", TAB, "y", TAB, "A", LF>>
NoFraction == <<"2", "0", "2", "4", "-", "0", "1", "-", "0", "1", " ", "1", "0", ":", "0", "0", ":", "0", "0", TAB, "A", TAB, "x", "A", LF>>
SpaceBeforeSource == <<"2", "0", "2", "4", "-", "0", "1", "-", "0", "1", " ", "1", "0", ":", "0", "0", ":", "0", "0", ".", "0", "0", "0", TAB, " ", "A", TAB, "x", "A", LF>>
Continuation == <<" ", "x", "A", LF>>
EmptyLine == <<LF>>

FileLines == {HeaderA, HeaderTabs, HeaderSpaced, NoFraction, Continuation}

RareFileLines == {HeaderEmptyMessage, SpaceBeforeSource, EmptyLine}

LineSeqs(S, n) == UNION { [1..k -> S] : k \in 0..n }

File(size, readError, lines) ==
    [exists |-> TRUE, size |-> size, readError |-> readError, lines |-> lines]

NoFile == [exists |-> FALSE, size |-> 0, readError |-> "none", lines |-> <<>>]

\* the byte count of the lines (one byte per modelled character)
RECURSIVE ByteSize(_)
ByteSize(lines) ==
    IF lines = <<>> THEN 0 ELSE Len(lines[1]) + ByteSize(Tail(lines))

DataFiles ==
    { File(ByteSize(ls), "none", ls) : ls \in LineSeqs(FileLines, MaxFileLines) }
    \cup { File(ByteSize(ls), "none", ls) : ls \in LineSeqs(RareFileLines, 2) }
    \cup { File(ByteSize(<<a, b>>), "none", <<a, b>>) :
             a \in RareFileLines, b \in FileLines }

FaultyFiles ==
    { NoFile,
      File(MaxFileSizeMB * BytesPerMB, "none", <<HeaderA>>),
      File(MaxFileSizeMB * BytesPerMB + 1, "none", <<HeaderA>>),
      File(60 * BytesPerMB, "PermissionError", <<HeaderA>>),
      File(ByteSize(<<HeaderA>>), "PermissionError", <<HeaderA>>),
      File(ByteSize(<<HeaderA>>), "OSError", <<HeaderA>>),
      File(ByteSize(<<NoFraction>>), "none", <<NoFraction>>),
      File(ByteSize(<<HeaderA, HeaderTabs, HeaderA>>), "none",
           <<HeaderA, HeaderTabs, HeaderA>>) }

GoodDate == <<"2", "0", "2", "4", "-", "0", "2", "-", "2", "9">>

Dates ==
    { Absent, Some(GoodDate), Some(<<" ", "2", "0", "2", "4", "-", "0", "2", "-", "2", "9", " ">>), Some(<<"2", "0", "2", "3", "-", "0", "2", "-", "2", "9">>), Some(<<"2", "0", "2", "4", "-", "1", "3", "-", "0", "1">>),
      Some(<<"2", "0", "2", "4", "-", "2", "-", "2", "9">>), Some(<<"0", "0", "0", "0", "-", "0", "1", "-", "0", "1">>), Some(<<"2", "0", "2", "4", "-", "0", "4", "-", "3", "1">>), Some(<<"2", "0", "2", "4", "-", "0", "2", "-", "2", "9", "x">>) }

\* values of lines and offset a client may send
LinesArgs ==
    { Absent, Some(<<"x">>), Some(<<>>), Some(<<"0">>), Some(<<"-", "2">>),
      Some(<<"2">>), Some(<<" ", "3", " ">>), Some(<<"1", "0", "0">>),
      Some(<<"5", "0", "0", "1">>), Some(<<"2", ".", "5">>) }

OffsetArgs ==
    { Absent, Some(<<"x">>), Some(<<"-", "1">>), Some(<<"0">>), Some(<<"1">>),
      Some(<<"+", "2">>), Some(<<"9", "9", "9", "9">>) }

SourceArgs == { Absent, Some(<<" ">>), Some(<<" ", "A", " ">>) }
SearchArgs == { Absent, Some(<<" ", "A">>) }

Prefs == { <<>>, [defaultLineCount |-> 0], [defaultLineCount |-> 2],
           [defaultLineCount |-> 6000] }

PlainLines == { Some(<<"1">>), Some(<<"2">>) }
PlainOffsets == { Absent, Some(<<"1">>), Some(<<"2">>) }
PlainSources == { Absent, Some(<<"A">>) }
CapOffsets == { Some(<<"9", "9", "9", "8">>), Some(<<"9", "9", "9", "9">>),
                Some(<<"1", "0", "0", "0", "0">>) }

\* what every request starts from
Fresh(ep, args, offsetArg) ==
    /\ endpoint = ep
    /\ pc = ep
    /\ query_args = args
    /\ walk = ClientWalk(offsetArg)
    /\ frame = <<>>
    /\ fetches = <<>>
    /\ logged = <<>>
    /\ reply = NoReply

\* live queries over small logs
InitLive ==
    /\ pluginPrefs = <<>>
    /\ logFile = NoFile
    /\ eventLog \in SmallLogs \cup {FailingLog}
    /\ \E l \in PlainLines, o \in PlainOffsets, src \in PlainSources,
          q \in SearchArgs :
          Fresh("log", QueryArgs(Absent, l, o, src, q), o)

\* unfiltered live queries at the fetch cap
InitLiveCapped ==
    /\ pluginPrefs = <<>>
    /\ logFile = NoFile
    /\ eventLog \in LongLogs
    /\ \E l \in PlainLines, o \in CapOffsets :
          Fresh("log", QueryArgs(Absent, l, o, Absent, Absent), o)

\* historical queries over the contents of a file
InitHistory ==
    /\ pluginPrefs = <<>>
    /\ eventLog = NoLog
    /\ logFile \in DataFiles
    /\ \E l \in PlainLines, o \in {Absent, Some(<<"2">>)}, src \in PlainSources,
          q \in SearchArgs :
          Fresh("history", QueryArgs(Some(GoodDate), l, o, src, q), o)

\* historical queries that fail or find nothing
InitHistoryFaults ==
    /\ pluginPrefs = <<>>
    /\ eventLog = NoLog
    /\ logFile \in FaultyFiles
    /\ \E d \in Dates, l \in PlainLines :
          Fresh("history", QueryArgs(d, l, Absent, Absent, Absent), Absent)

Init == InitLive \/ InitLiveCapped \/ InitHistory \/ InitHistoryFaults

ThreeHeaders == <<HeaderA, HeaderTabs, HeaderA>>

\* every supplied value of lines, offset and the filters, on a live source
\* of a few records and on a file of three entries or no file
InitParamValues ==
    /\ pluginPrefs \in Prefs
    /\ \E l \in LinesArgs, o \in OffsetArgs, src \in SourceArgs, q \in SearchArgs :
          \/ /\ logFile = NoFile
             /\ eventLog \in {NoLog, FailingLog,
                              [available |-> TRUE,
                               runs |-> Runs(KindMatch, 1, KindOther, 2)]}
             /\ Fresh("log", QueryArgs(Absent, l, o, src, q), o)
          \/ /\ eventLog = NoLog
             /\ logFile \in {NoFile,
                             File(ByteSize(ThreeHeaders), "none", ThreeHeaders)}
             /\ Fresh("history", QueryArgs(Some(GoodDate), l, o, src, q), o)

\* every date against every state of the file store
InitOutcomes ==
    /\ pluginPrefs = <<>>
    /\ eventLog = NoLog
    /\ logFile \in FaultyFiles
    /\ \E d \in Dates, l \in {Absent, Some(<<"x">>)},
          o \in {Absent, Some(<<"x">>)}, q \in SearchArgs :
          Fresh("history", QueryArgs(d, l, o, Absent, q), o)

InitParams == InitParamValues \/ InitOutcomes

Next ==
    \/ Log
    \/ LogInternalError
    \/ HistoryBadDate
    \/ HistoryNoFile
    \/ HistoryTooLarge
    \/ HistoryReadDenied
    \/ HistoryReadFailed
    \/ HistoryRead
    \/ HistoryParseLine
    \/ HistoryFinish
    \/ ClientNextPage

Spec == Init /\ [][Next]_vars

SpecParams == InitParams /\ [][Next]_vars

----------------------------------------------------------------------------
(* What the claims speak of *)

Answered(ep) == pc = "done" /\ endpoint = ep /\ reply.status = 200

\* a query answered with a page cut from a filtered sequence
Paged == pc = "done" /\ reply.status = 200 /\ "filtered" \in DOMAIN frame

\* the filter as the specification words it
Matches(source, message, source_filter, search_filter) ==
    /\ source_filter = <<>> \/ source = source_filter
    /\ search_filter = <<>> \/ Contains(PyLower(message), search_filter)

\* the lines of the file with their line ends dropped
TextLine(i) == RStripNewlines(logFile.lines[i])

\* the header lines among the first n lines
HeaderLines(n) == {i \in 1..n : LogLineMatch(TextLine(i)).matched}

\* the k-th smallest of the line numbers H
Nth(H, k) == CHOOSE i \in H : Cardinality({j \in H : j < i}) = k - 1

\* the last line of the entry of the k-th of the headers H of the first n lines
EntryEnd(H, n, k) == IF k < Cardinality(H) THEN Nth(H, k + 1) - 1 ELSE n

\* text split at every occurrence of sep
RECURSIVE SplitOn(_, _)
SplitOn(text, sep) ==
    IF \A i \in 1..Len(text) : text[i] # sep THEN <<text>>
    ELSE LET at == CHOOSE i \in 1..Len(text) :
                       /\ text[i] = sep
                       /\ \A j \in 1..(i - 1) : text[j] # sep
         IN <<SubSeq(text, 1, at - 1)>>
                \o SplitOn(SubSeq(text, at + 1, Len(text)), sep)

\* entry e is the k-th of the headers H of the first n lines, with the lines
\* that follow it up to the next header
IsEntryOf(e, H, n, k) ==
    LET h == Nth(H, k)
        m == LogLineMatch(TextLine(h))
    IN /\ e.timestamp = m.timestamp
       /\ e.source = m.source
       /\ SplitOn(e.message, LF)
            = <<m.message>> \o [j \in 1..(EntryEnd(H, n, k) - h) |-> TextLine(h + j)]

\* the lines before the first of the headers H among the first n lines
LeadingLines(H, n) == {i \in 1..n : \A h \in H : i < h}

NoFilter == frame.source_filter = <<>> /\ frame.search_filter = <<>>

----------------------------------------------------------------------------
\* C1: in both handlers the page has at most limit entries and is the slice
\* filtered[max(0, total-offset-limit) : total-offset] in unchanged order,
\* empty when offset >= total; hasMore holds exactly when an entry lies before
\* the page start, that is when total - offset - len(page) > 0; it is false
\* for total = 0, for offset = total and for offset = 0 with limit >= total.
PaginatorContract ==
    Paged =>
        LET filtered == frame.filtered
            total == Len(filtered)
            offset == frame.offset
            limit == frame.line_count
            page == reply.content.entries
            first == Max(0, total - offset - limit)
        IN /\ Len(page) <= limit
           /\ offset >= total => page = <<>>
           /\ offset < total =>
                /\ Len(page) = (total - offset) - first
                /\ \A i \in 1..Len(page) : page[i] = filtered[first + i]
           /\ reply.content.hasMore <=> (total - offset - Len(page) > 0)
           /\ reply.content.hasMore <=> (first > 0)
           /\ total = 0 => ~reply.content.hasMore
           /\ offset = total => ~reply.content.hasMore
           /\ (offset = 0 /\ limit >= total) =>
                (page = filtered /\ ~reply.content.hasMore)
           /\ reply.content.count = Len(page)
           /\ reply.content.totalFiltered = total

\* a middle page of a history walk: one entry skipped, one returned, one left
PaginatorMiddlePage ==
    /\ Paged
    /\ endpoint = "history"
    /\ Len(frame.filtered) = 3
    /\ frame.offset = 1
    /\ frame.line_count = 1
    /\ reply.content.entries = <<frame.filtered[2]>>
    /\ reply.content.hasMore

\* C2: with no filter active the entries are one per header line, in input
\* order; the message of each, split at newlines, is the header's message and
\* the lines up to the next header, verbatim; the lines before the first header
\* only count as unparsed leading lines; the open entry is emitted at the end
\* of input; entries already emitted stay as they are while later lines are
\* read.
ParserContract ==
    (endpoint = "history" /\ "lines" \in DOMAIN frame /\ NoFilter) =>
        LET n == frame.next - 1
            H == HeaderLines(n)
            heads == Cardinality(H)
            closed == IF pc = "done" THEN heads ELSE Max(0, heads - 1)
        IN /\ Len(frame.filtered) = closed
           /\ \A k \in 1..closed :
                /\ IsEntryOf(frame.filtered[k], H, n, k)
                /\ frame.filtered[k].typeVal = "None"
           /\ (pc = "parse" /\ heads = 0) => frame.current_entry = <<>>
           /\ (pc = "parse" /\ heads > 0) =>
                /\ Len(frame.current_entry) = 1
                /\ IsEntryOf(frame.current_entry[1], H, n, heads)
           /\ frame.unparsed_leading = Cardinality(LeadingLines(H, n))
           /\ pc = "done" =>
                /\ n = Len(logFile.lines)
                /\ reply.status = 200
                /\ reply.content.totalFiltered = heads

\* a leading line that is no header, then a header with one continuation line
ParserStitchedEntry ==
    /\ Answered("history")
    /\ "lines" \in DOMAIN frame
    /\ NoFilter
    /\ logFile.lines = <<NoFraction, HeaderA, Continuation>>
    /\ frame.unparsed_leading = 1
    /\ Len(frame.filtered) = 1
    /\ frame.filtered[1].message = <<"x", "A", LF, " ", "x", "A">>

\* C3: in both handlers an entry is kept exactly when the source filter is
\* empty or equals its source and the search filter is empty or occurs in its
\* lower-cased message; history tests the whole stitched message; the kept
\* entries keep the order of the input.
FilterContract ==
    /\ (Answered("log") /\ "filtered" \in DOMAIN frame) =>
        LET size == RunsSize(eventLog.runs)
            fetched == Min(size, frame.fetch_count)
            Pass(i) == LET r == EventRecord(eventLog.runs, i)
                       IN Matches(r.TypeStr, r.Message, frame.source_filter,
                                  frame.search_filter)
            filtered == frame.filtered
        IN /\ Len(filtered)
                = Cardinality({i \in (size - fetched + 1)..size : Pass(i)})
           /\ \A k \in 1..Len(filtered) :
                LET i == filtered[k].timestamp.iso
                    r == EventRecord(eventLog.runs, i)
                IN /\ i \in (size - fetched + 1)..size
                   /\ Pass(i)
                   /\ filtered[k].source = r.TypeStr
                   /\ filtered[k].message = r.Message
                   /\ filtered[k].typeVal = r.TypeVal
           /\ \A k \in 1..(Len(filtered) - 1) :
                filtered[k].timestamp.iso < filtered[k + 1].timestamp.iso
    /\ (Answered("history") /\ "filtered" \in DOMAIN frame) =>
        LET n == Len(logFile.lines)
            H == HeaderLines(n)
            Message(k) ==
                LET h == Nth(H, k)
                    RECURSIVE Stitch(_)
                    Stitch(j) == IF j = h
                                 THEN LogLineMatch(TextLine(h)).message
                                 ELSE Stitch(j - 1) \o <<LF>> \o TextLine(j)
                IN Stitch(EntryEnd(H, n, k))
            Pass(k) == Matches(LogLineMatch(TextLine(Nth(H, k))).source,
                               Message(k), frame.source_filter,
                               frame.search_filter)
            kept == {k \in 1..Cardinality(H) : Pass(k)}
            filtered == frame.filtered
        IN /\ Len(filtered) = Cardinality(kept)
           /\ \A i \in 1..Len(filtered) :
                /\ IsEntryOf(filtered[i], H, n, Nth(kept, i))
                /\ filtered[i].message = Message(Nth(kept, i))

\* an entry whose header message lacks the search text and whose continuation
\* line holds it
FilterKeepsContinuationMatch ==
    /\ Answered("history")
    /\ "filtered" \in DOMAIN frame
    /\ logFile.lines = <<HeaderTabs, Continuation>>
    /\ frame.search_filter = <<"a">>
    /\ ~Contains(PyLower(LogLineMatch(TextLine(1)).message), <<"a">>)
    /\ Len(reply.content.entries) = 1

\* C4: a history request ends in one outcome, decided in this order: a date
\* that is missing, malformed or no calendar date gives 400; no file gives 200
\* with an empty result; a file above 50 MiB gives 413 with its size in whole
\* MB and a hint to filter; a permission failure gives 403; another I/O failure
\* gives 500; anything else gives 200.  Only a 200 carries entries.
HistoryOutcomes ==
    (pc = "done" /\ endpoint = "history") =>
        LET content == reply.content
            limitBytes == 50 * 1024 * 1024
        IN /\ IF ~HistoryDateAccepted(query_args)
              THEN reply.status = 400 /\ ~content.success
              ELSE IF ~logFile.exists
              THEN /\ reply.status = 200
                   /\ content = [success |-> TRUE, count |-> 0,
                                 totalFiltered |-> 0, hasMore |-> FALSE,
                                 entries |-> <<>>]
              ELSE IF logFile.size > limitBytes
              THEN /\ reply.status = 413
                   /\ ~content.success
                   /\ content.mb = logFile.size \div (1024 * 1024)
                   /\ content.hint = "Use source or search filters."
              ELSE IF logFile.readError = "PermissionError"
              THEN reply.status = 403 /\ ~content.success
              ELSE IF logFile.readError # "none"
              THEN /\ reply.status = 500
                   /\ content = ErrorContent("File system error reading log file")
              ELSE /\ reply.status = 200
                   /\ content.success
                   /\ HeaderLines(Len(logFile.lines)) = {} => content.count = 0
           /\ reply.status # 200 => "entries" \notin DOMAIN content
           /\ reply.status \in {200, 400, 403, 413, 500}

\* a file of 60 MiB that could not be read either: the size guard answers
HistoryTooLargeFirst ==
    /\ pc = "done"
    /\ endpoint = "history"
    /\ logFile.size = 60 * 1024 * 1024
    /\ logFile.readError = "PermissionError"
    /\ reply.status = 413
    /\ reply.content.mb = 60

\* the number of header lines of the file and of lines before the first one
ParsedEntries == Cardinality(HeaderLines(Len(logFile.lines)))
UnparsedLeading ==
    Cardinality(LeadingLines(HeaderLines(Len(logFile.lines)), Len(logFile.lines)))

Reported(level) == \E i \in 1..Len(logged) : logged[i].level = level

\* C5: the format-mismatch warning is reported exactly when the parser emitted
\* no entry and saw an unparsed leading line, the debug note exactly when it
\* emitted an entry and saw one, and nothing when it saw none, whatever the
\* filters keep.
DiagnosticsFollowParser ==
    (Answered("history") /\ "lines" \in DOMAIN frame) =>
        /\ Reported("warning") <=> (ParsedEntries = 0 /\ UnparsedLeading > 0)
        /\ Reported("debug") <=> (ParsedEntries > 0 /\ UnparsedLeading > 0)
        /\ UnparsedLeading = 0 => logged = <<>>

\* a filter is given: some character of source or search is no whitespace
FilterGiven ==
    \/ \E i \in 1..Len(GetText(query_args, "source")) :
          ~IsSpace(GetText(query_args, "source")[i])
    \/ \E i \in 1..Len(GetText(query_args, "search")) :
          ~IsSpace(GetText(query_args, "search")[i])

\* C6: the live handler asks the live source once, for
\* min(10000, (offset + limit + 1) * k) records, k = 3 with a filter given and
\* 1 without; the count lies between 2 and 10000.
FetchSizerContract ==
    (pc = "done" /\ endpoint = "log") =>
        LET wanted == (frame.offset + frame.line_count + 1)
                          * (IF FilterGiven THEN 3 ELSE 1)
        IN /\ frame.offset >= 0
           /\ frame.line_count \in 1..5000
           /\ Len(fetches) = 1
           /\ fetches[1] = (IF wanted < 10000 THEN wanted ELSE 10000)
           /\ fetches[1] \in 2..10000

\* offset 0, limit 100, a filter given: 303 records are asked for
FetchSizerExample ==
    /\ Answered("log")
    /\ frame.offset = 0
    /\ frame.line_count = 100
    /\ FilterGiven
    /\ fetches = <<303>>

\* a record older than the fetched ones passes the filter
OlderMatchUnfetched ==
    \E i \in 1..(RunsSize(eventLog.runs) - frame.fetch_count) :
        LET r == EventRecord(eventLog.runs, i)
        IN Matches(r.TypeStr, r.Message, frame.source_filter,
                   frame.search_filter)

\* a page short of lines that reports no more, with older matches unfetched
UnderReported ==
    /\ Answered("log")
    /\ "filtered" \in DOMAIN frame
    /\ Len(reply.content.entries) < frame.line_count
    /\ ~reply.content.hasMore
    /\ OlderMatchUnfetched

\* C7: on the live path a short page with hasMore = false can hide older
\* matching records; below the fetch cap this happens only with a filter
\* active and more than two-thirds of the fetched records failing it.
UnderReportNeedsPoorSelectivity ==
    (UnderReported /\ frame.fetch_count < MaxFetchCount) =>
        /\ frame.has_filter
        /\ 3 * Len(frame.filtered) < frame.fetch_count

\* the case itself: a filter active, every fetched record fails it, the one
\* older record passes it
UnderReportHappens ==
    /\ UnderReported
    /\ frame.has_filter
    /\ frame.fetch_count < MaxFetchCount
    /\ 3 * (frame.fetch_count - Len(frame.filtered)) > 2 * frame.fetch_count
    /\ reply.content.entries = <<>>

\* the limit and the offset a supplied value stands for
EffectiveLimit ==
    LET given == PyInt(GetText(query_args, "lines"))
        configured == IF "defaultLineCount" \in DOMAIN pluginPrefs
                      THEN pluginPrefs.defaultLineCount ELSE 500
        wanted == IF HasArg(query_args, "lines") /\ given.ok THEN given.val
                  ELSE configured
    IN IF wanted < 1 THEN 1 ELSE IF wanted > 5000 THEN 5000 ELSE wanted

EffectiveOffset ==
    LET given == PyInt(GetText(query_args, "offset"))
    IN IF HasArg(query_args, "offset") /\ given.ok /\ given.val > 0
       THEN given.val ELSE 0

\* C8: in both handlers every supplied lines and offset give a limit in
\* [1,5000] and an offset >= 0: an absent or non-integer lines stands for the
\* clamped configured default, an absent or non-integer offset for 0; no value
\* of them makes the request fail, and a success holds count = len(entries)
\* <= limit <= 5000.
ParameterNormalisation ==
    pc = "done" =>
        /\ "line_count" \in DOMAIN frame =>
            /\ frame.line_count = EffectiveLimit
            /\ frame.line_count \in 1..5000
            /\ frame.offset = EffectiveOffset
            /\ frame.offset >= 0
        /\ endpoint = "log" => (reply.status = 200 <=> eventLog.available)
        /\ endpoint = "history" =>
            (reply.status = 200 <=>
                /\ HistoryDateAccepted(query_args)
                /\ logFile.exists =>
                     (~FileTooLarge(logFile) /\ logFile.readError = "none"))
        /\ reply.status = 200 =>
            /\ reply.content.success
            /\ reply.content.count = Len(reply.content.entries)
            /\ reply.content.count <= EffectiveLimit
            /\ EffectiveLimit <= 5000

\* lines = "x" with a configured default of 6000 and offset = "-1"
ParameterMalformed ==
    /\ Answered("history")
    /\ "line_count" \in DOMAIN frame
    /\ HasArg(query_args, "lines")
    /\ HasArg(query_args, "offset")
    /\ query_args["lines"] = <<"x">>
    /\ query_args["offset"] = <<"-", "1">>
    /\ DefaultLines(pluginPrefs) = 6000
    /\ frame.line_count = 5000
    /\ frame.offset = 0
    /\ reply.content.count = 3

\* the pages of the walk, newest first, with the page just received
RECURSIVE OldestFirst(_)
OldestFirst(pages) ==
    IF pages = <<>> THEN <<>>
    ELSE OldestFirst(Tail(pages)) \o pages[1]

CeilDiv(a, b) == (a + b - 1) \div b

\* C9: a walk from offset 0 with a fixed limit L over an unchanged file ends
\* after max(1, ceil(total/L)) requests, with hasMore false on the last
\* request only; the pages, last fetched first, are the filtered sequence:
\* every entry once, none missing.
PageWalkContract ==
    (Answered("history") /\ walk.paging /\ walk.start = 0
     /\ "filtered" \in DOMAIN frame) =>
        LET total == Len(frame.filtered)
            L == frame.line_count
            last == Max(1, CeilDiv(total, L))
            received == Append(walk.pages, reply.content.entries)
        IN /\ walk.requests <= last
           /\ reply.content.hasMore <=> walk.requests < last
           /\ walk.offset = (walk.requests - 1) * L
           /\ frame.offset = walk.offset
           /\ Len(received) = walk.requests
           /\ reply.content.totalFiltered = total
           /\ OldestFirst(received)
                = SubSeq(frame.filtered,
                         total - Len(OldestFirst(received)) + 1, total)
           /\ ~reply.content.hasMore => OldestFirst(received) = frame.filtered

\* three entries walked one by one: the third request is the last
PageWalkEnds ==
    /\ Answered("history")
    /\ walk.paging
    /\ walk.start = 0
    /\ "filtered" \in DOMAIN frame
    /\ Len(frame.filtered) = 3
    /\ frame.line_count = 1
    /\ walk.requests = 3
    /\ ~reply.content.hasMore

\* C10: with no filter the live reply is the page of all N records:
\* records[max(0, N-offset-limit) : N-offset], and hasMore exactly when
\* N > offset + limit, also when offset + limit + 1 exceeds the fetch cap.
UnfilteredLiveSeesAll ==
    (Answered("log") /\ "filtered" \in DOMAIN frame /\ ~frame.has_filter) =>
        LET N == RunsSize(eventLog.runs)
            first == Max(0, N - frame.offset - frame.line_count)
            stop == Max(0, N - frame.offset)
            page == reply.content.entries
        IN /\ Len(page) = stop - first
           /\ \A i \in 1..Len(page) : page[i].timestamp.iso = first + i
           /\ reply.content.hasMore <=> N > frame.offset + frame.line_count

====
